---- MODULE Spec2Model ----
(***************************************************************************)
(* Brewvino booking placecards generator (src/app.py).                     *)
(*                                                                         *)
(* Text is modelled as a sequence of one-character strings, so that        *)
(* trimming, splitting, case conversion, parsing and formatting are        *)
(* computed character by character as the Python code computes them.       *)
(* A cell value of the uploaded table is a record [kind, chars]: kind is   *)
(* the Python type of the value ("str", "float" for pandas' NaN, "int")    *)
(* and chars is its text, str(value).                                      *)
(***************************************************************************)
EXTENDS Integers, Sequences, FiniteSets, TLC

VARIABLES
    pc,             \* position of the running script or call
    arg,            \* argument of the function under call
    ret,            \* value returned by the function under call
    specs_file,     \* condition of design_specs.json on disk
    design_specs,   \* main's design_specs mapping
    uploaded_file,  \* what the file uploader holds
    df2,            \* the projected data frame (sequence of booking rows)
    filter_option,  \* the radio button's value
    filtered_df,    \* the rows kept by the filter
    ui,             \* the elements the script has written to the page, in order
    story           \* the flowables handed to the document renderer

vars == <<pc, arg, ret, specs_file, design_specs, uploaded_file, df2,
          filter_option, filtered_df, ui, story>>

(***************************************************************************)
(* Python values and text primitives                                       *)
(***************************************************************************)

None == [kind |-> "NoneType", chars |-> <<"N", "o", "n", "e">>]

Str(s) == [kind |-> "str", chars |-> s]

NaN == [kind |-> "float", chars |-> <<"n", "a", "n">>]

isna(v) == v.kind = "float" /\ v.chars = <<"n", "a", "n">>

Digits == <<"0", "1", "2", "3", "4", "5", "6", "7", "8", "9">>

LowerLetters == <<"a", "b", "c", "d", "e", "f", "g", "h", "i", "j", "k", "l", "m",
                  "n", "o", "p", "q", "r", "s", "t", "u", "v", "w", "x", "y", "z">>

UpperLetters == <<"A", "B", "C", "D", "E", "F", "G", "H", "I", "J", "K", "L", "M",
                  "N", "O", "P", "Q", "R", "S", "T", "U", "V", "W", "X", "Y", "Z">>

Whitespace == {" ", "\t"}

Range(seq) == {seq[i] : i \in 1..Len(seq)}

IndexOf(seq, c) == CHOOSE i \in 1..Len(seq) : seq[i] = c

IsDigit(c) == c \in Range(Digits)

DigitVal(c) == IndexOf(Digits, c) - 1

LowerChar(c) == IF c \in Range(UpperLetters) THEN LowerLetters[IndexOf(UpperLetters, c)] ELSE c

UpperChar(c) == IF c \in Range(LowerLetters) THEN UpperLetters[IndexOf(LowerLetters, c)] ELSE c

lower(s) == [i \in 1..Len(s) |-> LowerChar(s[i])]

RECURSIVE lstrip(_, _)
lstrip(s, set) == IF s # <<>> /\ Head(s) \in set THEN lstrip(Tail(s), set) ELSE s

RECURSIVE rstrip(_, _)
rstrip(s, set) ==
    IF s # <<>> /\ s[Len(s)] \in set THEN rstrip(SubSeq(s, 1, Len(s) - 1), set) ELSE s

strip(s) == rstrip(lstrip(s, Whitespace), Whitespace)

\* str.split() with no separator: the maximal runs of non-whitespace characters
RECURSIVE split(_)
split(s) ==
    LET t == lstrip(s, Whitespace)
        n == IF \E i \in 1..Len(t) : t[i] \in Whitespace
             THEN (CHOOSE i \in 1..Len(t) :
                      t[i] \in Whitespace /\ \A j \in 1..(i - 1) : t[j] \notin Whitespace) - 1
             ELSE Len(t)
    IN IF t = <<>> THEN <<>>
       ELSE <<SubSeq(t, 1, n)>> \o split(SubSeq(t, n + 1, Len(t)))

\* word[0].upper() + word[1:]: the rest of the word keeps its case
capitalize_first_only(w) ==
    IF w = <<>> THEN <<>> ELSE <<UpperChar(Head(w))>> \o Tail(w)

capitalize(w) ==
    IF w = <<>> THEN <<>> ELSE <<UpperChar(Head(w))>> \o lower(Tail(w))

RECURSIVE join(_, _)
join(sep, words) ==
    IF words = <<>> THEN <<>>
    ELSE IF Len(words) = 1 THEN words[1]
    ELSE words[1] \o sep \o join(sep, Tail(words))

\* the text of a non-negative integer, str(n)
RECURSIVE IntText(_)
IntText(n) == IF n < 10 THEN <<Digits[n + 1]>> ELSE IntText(n \div 10) \o <<Digits[(n % 10) + 1]>>

Pad2(n) == <<Digits[(n \div 10) + 1], Digits[(n % 10) + 1]>>

(***************************************************************************)
(* calculate_end_time (src/app.py:188-222)                                 *)
(***************************************************************************)

\* hours added to the booking time
BookingHours == 2

\* the formats tried, in order; each is the sequence of its directives and literals
time_formats ==
    << <<"%I", ":", "%M", " ", "%p">>,    \* 7:30 PM
       <<"%H", ":", "%M">>,               \* 19:30
       <<"%I", "%p">>,                    \* 7PM
       <<"%I", ":", "%M", "%p">> >>       \* 7:30PM (no space)

Directives == {"%I", "%H", "%M", "%p"}

At(s, i) == IF i \in 1..Len(s) THEN s[i] ELSE ""

\* The ways one element of a format matches text s from position i, in the
\* order the regular expression strptime builds for it tries them:
\*   %I  1[0-2]|0[1-9]|[1-9]      %H  2[0-3]|[0-1]\d|\d      %M  [0-5]\d|\d
\*   %p  am|pm (ignoring case)    blank  \s+ (longest first)  other  itself
Alternatives(tok, s, i) ==
    LET a == At(s, i)
        b == At(s, i + 1)
        two == [val |-> 10 * DigitVal(a) + DigitVal(b), next |-> i + 2]
        one == [val |-> DigitVal(a), next |-> i + 1]
        when(cond, alt) == IF cond THEN <<alt>> ELSE <<>>
    IN CASE tok = "%I" ->
               when(a = "1" /\ b \in {"0", "1", "2"}, two)
               \o when(a = "0" /\ IsDigit(b) /\ b # "0", two)
               \o when(IsDigit(a) /\ a # "0", one)
         [] tok = "%H" ->
               when(a = "2" /\ b \in {"0", "1", "2", "3"}, two)
               \o when(a \in {"0", "1"} /\ IsDigit(b), two)
               \o when(IsDigit(a), one)
         [] tok = "%M" ->
               when(a \in {"0", "1", "2", "3", "4", "5"} /\ IsDigit(b), two)
               \o when(IsDigit(a), one)
         [] tok = "%p" ->
               when(LowerChar(a) = "a" /\ LowerChar(b) = "m", [val |-> "am", next |-> i + 2])
               \o when(LowerChar(a) = "p" /\ LowerChar(b) = "m", [val |-> "pm", next |-> i + 2])
         [] tok = " " ->
               LET n == Len(lstrip(SubSeq(s, i, Len(s)), Whitespace))
                   run == (Len(s) - i + 1) - n
               IN [k \in 1..run |-> [val |-> 0, next |-> i + run - k + 1]]
         [] OTHER -> when(a = tok, [val |-> 0, next |-> i + 1])

NoMatch == [ok |-> FALSE, end |-> 0, found |-> [d \in Directives |-> 0]]

\* re.match of the format's regular expression on s: the first way, in the
\* expression's order of preference, to match every element from position i on
RECURSIVE re_match(_, _, _, _), first_alternative(_, _, _, _, _)
re_match(toks, s, i, found) ==
    IF toks = <<>> THEN [ok |-> TRUE, end |-> i, found |-> found]
    ELSE first_alternative(Alternatives(Head(toks), s, i), 1, toks, s, found)

first_alternative(alts, j, toks, s, found) ==
    IF j > Len(alts) THEN NoMatch
    ELSE LET tok == Head(toks)
             kept == IF tok \in Directives THEN [found EXCEPT ![tok] = alts[j].val] ELSE found
             r == re_match(Tail(toks), s, alts[j].next, kept)
         IN IF r.ok THEN r ELSE first_alternative(alts, j + 1, toks, s, found)

\* datetime.strptime(data_string, fmt): [ok, minutes], minutes counted from
\* 1900-01-01 00:00; ok is FALSE where strptime raises ValueError (no match, or
\* unconverted data remains)
strptime(data_string, fmt) ==
    LET m == re_match(fmt, data_string, 1,
                      [d \in Directives |-> IF d = "%p" THEN "" ELSE -1])
        f == m.found
        hour == IF f["%H"] # -1 THEN f["%H"]
                ELSE IF f["%I"] = -1 THEN 0
                ELSE IF f["%p"] \in {"", "am"}
                     THEN (IF f["%I"] = 12 THEN 0 ELSE f["%I"])
                     ELSE (IF f["%I"] # 12 THEN f["%I"] + 12 ELSE f["%I"])
        minute == IF f["%M"] # -1 THEN f["%M"] ELSE 0
    IN IF m.ok /\ m.end = Len(data_string) + 1
       THEN [ok |-> TRUE, minutes |-> 60 * hour + minute]
       ELSE [ok |-> FALSE, minutes |-> 0]

\* datetime.strftime("%I:%M %p") of the moment t minutes after 1900-01-01 00:00
strftime(t) ==
    LET hour == (t \div 60) % 24
        minute == t % 60
        h12 == IF hour % 12 = 0 THEN 12 ELSE hour % 12
    IN Pad2(h12) \o <<":">> \o Pad2(minute) \o <<" ">>
       \o (IF hour < 12 THEN <<"A", "M">> ELSE <<"P", "M">>)

\* the loop over time_formats: the first format that parses wins
RECURSIVE first_parse(_, _)
first_parse(text, k) ==
    IF k > Len(time_formats) THEN [ok |-> FALSE, minutes |-> 0]
    ELSE LET r == strptime(text, time_formats[k])
         IN IF r.ok THEN r ELSE first_parse(text, k + 1)

\* the fallback built from the trimmed input
time_passthrough_trimmed(booking_time) ==
    strip(booking_time.chars) \o <<" ", "-", " ">> \o strip(booking_time.chars)

time_passthrough(booking_time) ==
    booking_time.chars \o <<" ", "-", " ">> \o booking_time.chars

\* timedelta(minutes=2) in place of timedelta(hours=2)
add_booking_minutes(t) == t + BookingHours

add_booking_hours(t) == t + 60 * BookingHours

calculate_end_time(booking_time) ==
    IF booking_time.kind # "str"
    THEN time_passthrough(booking_time)       \* .strip() raises, caught at line 220
    ELSE LET booking_datetime == first_parse(strip(booking_time.chars), 1)
         IN IF ~booking_datetime.ok
            THEN time_passthrough(booking_time)
            ELSE LET end_datetime == add_booking_hours(booking_datetime.minutes)
                     start_formatted == lstrip(strftime(booking_datetime.minutes), {"0"})
                     end_formatted == lstrip(strftime(end_datetime), {"0"})
                 IN start_formatted \o <<" ", "-", " ">> \o end_formatted

(***************************************************************************)
(* capitalize_customer_name (src/app.py:140-165)                           *)
(***************************************************************************)

Guest == <<"G", "u", "e", "s", "t">>

WalkIn == <<"W", "a", "l", "k", " ", "I", "n">>

name_particles ==
    { <<"m", "c">>, <<"m", "a", "c">>, <<"o", "'">>, <<"d", "e">>, <<"v", "a", "n">>,
      <<"v", "o", "n">>, <<"l", "a">>, <<"l", "e">> }

\* the loop over words; both branches of the particle test append word.capitalize()
RECURSIVE capitalized_words(_)
capitalized_words(words) ==
    IF words = <<>> THEN <<>>
    ELSE LET word == Head(words)
             rest == capitalized_words(Tail(words))
         IN IF word = <<>> THEN rest
            ELSE IF lower(word) \in name_particles
                 THEN <<capitalize(word)>> \o rest
                 ELSE <<capitalize(word)>> \o rest

capitalize_customer_name(name) ==
    IF isna(name) \/ (name.kind = "str" /\ name.chars = <<>>)
    THEN Guest
    ELSE LET stripped == strip(name.chars)
         IN IF lower(stripped) = lower(WalkIn)
            THEN WalkIn
            ELSE join(<<" ">>, capitalized_words(split(stripped)))

(***************************************************************************)
(* extract_table_numbers (src/app.py:167-186)                              *)
(***************************************************************************)

TBD == <<"T", "B", "D">>

\* str.split(','): the pieces between commas, empty pieces kept
RECURSIVE split_commas(_)
split_commas(s) ==
    IF \E i \in 1..Len(s) : s[i] = ","
    THEN LET i == CHOOSE k \in 1..Len(s) : s[k] = "," /\ \A j \in 1..(k - 1) : s[j] # ","
         IN <<SubSeq(s, 1, i - 1)>> \o split_commas(SubSeq(s, i + 1, Len(s)))
    ELSE <<s>>

\* the leading run of digits of s
RECURSIVE digit_run(_)
digit_run(s) ==
    IF s # <<>> /\ IsDigit(Head(s)) THEN <<Head(s)>> \o digit_run(Tail(s)) ELSE <<>>

\* re.findall(r'\d+', s)[0] when there is one, else the empty text
RECURSIVE first_number(_)
first_number(s) ==
    IF s = <<>> THEN <<>>
    ELSE IF IsDigit(Head(s)) THEN digit_run(s)
    ELSE first_number(Tail(s))

\* the loop without "if numbers:": a segment without digits leaves an empty entry
RECURSIVE cleaned_tables_keep_empty(_)
cleaned_tables_keep_empty(tables) ==
    IF tables = <<>> THEN <<>>
    ELSE <<first_number(strip(Head(tables)))>> \o cleaned_tables_keep_empty(Tail(tables))

RECURSIVE cleaned_tables(_)
cleaned_tables(tables) ==
    IF tables = <<>> THEN <<>>
    ELSE LET numbers == first_number(strip(Head(tables)))
         IN (IF numbers # <<>> THEN <<numbers>> ELSE <<>>) \o cleaned_tables(Tail(tables))

extract_table_numbers(table_string) ==
    IF isna(table_string) \/ (table_string.kind = "str" /\ table_string.chars = <<>>)
    THEN TBD
    ELSE LET cleaned == cleaned_tables(split_commas(table_string.chars))
         IN IF cleaned # <<>> THEN join(<<",">>, cleaned) ELSE TBD

(***************************************************************************)
(* Design specifications (src/app.py:19-41)                                *)
(***************************************************************************)

get_default_specs ==
    [font_family |-> "Helvetica",
     title_font_size |-> 14,
     content_font_size |-> 12,
     card_width |-> <<3, 5>>,       \* 3.5, as <<units, tenths>>
     card_height |-> <<2, 5>>,      \* 2.5
     margin |-> <<0, 5>>,           \* 0.5
     background_color |-> "white",
     text_color |-> "black",
     border |-> TRUE,
     border_color |-> "gray"]

\* the content of a well-formed design_specs.json that differs from the defaults
file_specs ==
    [font_family |-> "Times-Roman",
     title_font_size |-> 16,
     content_font_size |-> 10,
     card_width |-> <<4, 0>>,
     card_height |-> <<3, 0>>,
     margin |-> <<1, 0>>,
     background_color |-> "lightyellow",
     text_color |-> "black",
     border |-> FALSE,
     border_color |-> "black"]

(***************************************************************************)
(* Booking rows                                                            *)
(***************************************************************************)

required_columns ==
    <<"Service or Event", "Time", "Number of People", "Customer", "Table(s)">>

Booking(service, time, people, customer, tables) ==
    [c \in Range(required_columns) |->
        CASE c = "Service or Event" -> service
          [] c = "Time" -> time
          [] c = "Number of People" -> people
          [] c = "Customer" -> customer
          [] c = "Table(s)" -> tables]

IntCell(n) == [kind |-> "int", chars |-> IntText(n)]

\* rows of an uploaded file, as pandas reads them (an empty cell is NaN)
SampleBookings ==
    << Booking(Str(<<"L", "u", "n", "c", "h">>),
               Str(<<"1", "2", ":", "3", "0", " ", "P", "M">>), IntCell(2),
               Str(<<"j", "o", "h", "n", " ", "S", "M", "I", "T", "H">>),
               Str(<<"T", "5">>)),
       Booking(Str(<<"D", "I", "N", "N", "E", "R", " ", "a", "l", "a", " ", "c", "a", "r", "t", "e">>),
               Str(<<"1", "9", ":", "3", "0">>), IntCell(4),
               NaN,
               Str(<<"5", ",", " ", "T", "1", "2", ",", " ", "n", "o", "n", "e">>)),
       Booking(NaN,
               Str(<<"1", "1", ":", "1", "5", " ", "P", "M">>), IntCell(6),
               Str(<<"w", "a", "l", "k", " ", "I", "N">>),
               NaN),
       Booking(Str(<<"l", "a", "t", "e", " ", "L", "U", "N", "C", "H">>),
               Str(<<"n", "o", "o", "n">>), IntCell(3),
               Str(<<" ", " ">>),
               Str(<<"a", "b", "c">>)),
       Booking(Str(<<"B", "r", "u", "n", "c", "h">>),
               Str(<<"7", "P", "M">>), IntCell(8),
               Str(<<"m", "c", " ", "d", "o", "n", "a", "l", "d">>),
               Str(<<"1", "2", "a">>)) >>

(***************************************************************************)
(* create_single_card (src/app.py:343-442)                                 *)
(***************************************************************************)

create_single_card(row, specs) ==
    [kind |-> "card_table",
     reserved_title |-> <<"R", "E", "S", "E", "R", "V", "E", "D">>,
     name |-> capitalize_customer_name(row["Customer"]),
     time_info |-> calculate_end_time(row["Time"]),
     table |-> <<"T">> \o extract_table_numbers(row["Table(s)"]),
     party |-> row["Number of People"].chars \o <<"P">>,
     font |-> <<specs.font_family, specs.title_font_size, specs.content_font_size>>,
     text_color |-> specs.text_color,
     background |-> specs.background_color,
     line_below |-> specs.border_color,
     box |-> IF specs.border THEN specs.border_color ELSE "none"]

(***************************************************************************)
(* generate_placecards (src/app.py:235-341)                                *)
(***************************************************************************)

\* cards on a page
CardsPerPage == 4

\* cards in a row of the page grid
CardsPerRow == 2

Min(a, b) == IF a < b THEN a ELSE b

EmptySpot == Str(<<>>)

PageBreak == [kind |-> "PageBreak"]

\* a slice one row short: df.iloc[page_start:page_start + 3]
page_bookings_short(df, page_start) ==
    SubSeq(df, page_start + 1, Min(page_start + CardsPerPage - 1, Len(df)))

\* df.iloc[page_start:page_start + 4]; page_start counts from 0
page_bookings_of(df, page_start) ==
    SubSeq(df, page_start + 1, Min(page_start + CardsPerPage, Len(df)))

\* "while len(row_cards) < 2: row_cards.append('')"
fill_empty_spots(row_cards) ==
    row_cards \o [i \in 1..(CardsPerRow - Len(row_cards)) |-> EmptySpot]

row1_cards_of(page_bookings, specs) ==
    fill_empty_spots(
        [i \in 1..Min(CardsPerRow, Len(page_bookings)) |->
            create_single_card(page_bookings[i], specs)])

\* the second row started one row early: range(1, min(4, len(page_bookings)))
row2_cards_from_1(page_bookings, specs) ==
    fill_empty_spots(
        IF Len(page_bookings) > CardsPerRow
        THEN [i \in 1..(Min(CardsPerPage, Len(page_bookings)) - 1) |->
                 create_single_card(page_bookings[1 + i], specs)]
        ELSE <<>>)

row2_cards_of(page_bookings, specs) ==
    fill_empty_spots(
        IF Len(page_bookings) > CardsPerRow
        THEN [i \in 1..(Min(CardsPerPage, Len(page_bookings)) - CardsPerRow) |->
                 create_single_card(page_bookings[CardsPerRow + i], specs)]
        ELSE <<>>)

page_table_of(page_bookings, specs) ==
    [kind |-> "page_table",
     data |-> <<row1_cards_of(page_bookings, specs), row2_cards_of(page_bookings, specs)>>]

\* "<=" in place of "<": a separator after a full last page
more_bookings_or_full(df, page_start) == page_start + CardsPerPage <= Len(df)

\* "if page_start + 4 < len(df)"
more_bookings(df, page_start) == page_start + CardsPerPage < Len(df)

\* the loop "for page_start in range(0, len(df), 4)", from page_start on
RECURSIVE story_from(_, _, _)
story_from(df, page_start, specs) ==
    IF page_start >= Len(df) THEN <<>>
    ELSE <<page_table_of(page_bookings_of(df, page_start), specs)>>
         \o (IF more_bookings(df, page_start) THEN <<PageBreak>> ELSE <<>>)
         \o story_from(df, page_start + CardsPerPage, specs)

\* the story generate_placecards hands to doc.build
generate_placecards_story(df, specs) == story_from(df, 0, specs)

\* the buffer generate_placecards returns once doc.build(story) has returned
pdf_of(built_story) == [kind |-> "BytesIO", document |-> built_story]

(***************************************************************************)
(* load_design_specs (src/app.py:19-26)                                    *)
(***************************************************************************)

\* what the page shows: st.<kind>(text ...), with the column names and the
\* count the text is formatted with
Element(kind, text, names, count) ==
    [kind |-> kind, text |-> text, names |-> names, count |-> count]

\* the conditions design_specs.json can be in
SpecsFileStates == {"present", "missing", "unopenable", "unparseable"}

\* open() raises FileNotFoundError for a missing file and another OSError for
\* one that cannot be opened; json.load raises JSONDecodeError for one that does
\* not parse. Only FileNotFoundError is caught.
load_design_specs(file) ==
    CASE file = "present" ->
             [raised |-> "", specs |-> file_specs, shown |-> <<>>]
      [] file = "missing" ->
             [raised |-> "", specs |-> get_default_specs,
              shown |-> <<Element("warning", "Design specs file not found. Using default settings.", {}, 0)>>]
      [] file = "unopenable" ->
             [raised |-> "OSError", specs |-> <<>>, shown |-> <<>>]
      [] file = "unparseable" ->
             [raised |-> "JSONDecodeError", specs |-> <<>>, shown |-> <<>>]

(***************************************************************************)
(* validate_csv_structure (src/app.py:224-233)                             *)
(***************************************************************************)

missing_columns_of(columns) == {c \in Range(required_columns) : c \notin columns}

validate_csv_structure(columns) ==
    IF missing_columns_of(columns) # {}
    THEN [valid |-> FALSE,
          shown |-> <<Element("error", "Missing required columns", missing_columns_of(columns), 0),
                      Element("info", "Required columns", Range(required_columns), 0)>>]
    ELSE [valid |-> TRUE, shown |-> <<>>]

(***************************************************************************)
(* The service filter (src/app.py:484-492)                                 *)
(***************************************************************************)

FilterOptions == {"All bookings", "Lunch only", "Dinner only"}

filter_keyword(option) ==
    IF option = "Lunch only" THEN <<"l", "u", "n", "c", "h">>
    ELSE <<"d", "i", "n", "n", "e", "r">>

\* Series.str raises AttributeError unless the column holds text: a column of
\* a frame with rows whose cells are all empty is read as float64
str_accessor_raises(df) ==
    /\ Len(df) > 0
    /\ \A i \in 1..Len(df) : df[i]["Service or Event"].kind # "str"

\* .str.lower() of one cell: NaN stays NaN
cell_lower(v) == IF v.kind = "str" THEN Str(lower(v.chars)) ELSE v

\* .str.contains(pat, na=False) of one cell
cell_contains(v, pat) ==
    IF v.kind # "str" THEN FALSE
    ELSE \E i \in 1..(Len(v.chars) - Len(pat) + 1) :
             SubSeq(v.chars, i, i + Len(pat) - 1) = pat

\* the mask without .str.lower()
service_mask_case_sensitive(row, keyword) == cell_contains(row["Service or Event"], keyword)

service_mask(row, keyword) == cell_contains(cell_lower(row["Service or Event"]), keyword)

\* df2[mask]: the rows whose mask is True, in their order
RECURSIVE rows_where(_, _)
rows_where(df, keyword) ==
    IF df = <<>> THEN <<>>
    ELSE (IF service_mask(Head(df), keyword) THEN <<Head(df)>> ELSE <<>>)
         \o rows_where(Tail(df), keyword)

apply_filter(df, option) ==
    IF option = "All bookings" THEN df ELSE rows_where(df, filter_keyword(option))

filter_info(option, n) ==
    CASE option = "Lunch only" -> Element("info", "Filtered to Lunch bookings", {}, n)
      [] option = "Dinner only" -> Element("info", "Filtered to Dinner bookings", {}, n)
      [] OTHER -> Element("info", "Including all bookings", {}, n)

\* ">=" in place of ">"
has_bookings_or_none(filtered) == Len(filtered) >= 0

\* "if len(filtered_df) > 0"
has_bookings(filtered) == Len(filtered) > 0

download_file_name(option) ==
    CASE option = "Lunch only" -> "brewvino_placecards_lunch.pdf"
      [] option = "Dinner only" -> "brewvino_placecards_dinner.pdf"
      [] OTHER -> "brewvino_placecards_all_services.pdf"

(***************************************************************************)
(* main (src/app.py:444-620): one run of the script                        *)
(***************************************************************************)

\* most rows in an uploaded file
MaxRows == 3

\* the header rows of the uploaded files tried
ColumnSets ==
    { Range(required_columns),
      Range(required_columns) \cup {"Notes"},
      Range(required_columns) \ {"Time"},
      Range(required_columns) \ {"Customer", "Table(s)"},
      {"name", "table_number", "booking_time", "party_size"} }

RECURSIVE Frames(_, _)
Frames(rows, n) ==
    IF n = 0 THEN {<<>>}
    ELSE LET shorter == Frames(rows, n - 1)
         IN shorter \cup {Append(f, r) : f \in {x \in shorter : Len(x) = n - 1}, r \in rows}

\* what the uploader can hold: nothing, a file read_csv cannot parse, or a
\* table with a header row and rows (of which only the cells under the
\* header's columns exist)
UploadedFiles ==
    {None, [kind |-> "csv", parses |-> FALSE, columns |-> {}, rows |-> <<>>]}
    \cup {[kind |-> "csv", parses |-> TRUE, columns |-> c, rows |-> r] :
             c \in ColumnSets, r \in Frames(Range(SampleBookings), MaxRows)}

InitMain ==
    /\ pc = "start"
    /\ arg = None
    /\ ret = None
    /\ specs_file \in SpecsFileStates
    /\ design_specs = None
    /\ uploaded_file \in UploadedFiles
    /\ df2 = <<>>
    /\ filter_option = "All bookings"
    /\ filtered_df = <<>>
    /\ ui = <<>>
    /\ story = <<>>

\* line 449; an exception load_design_specs lets through ends the run
LoadDesignSpecs ==
    /\ pc = "start"
    /\ LET r == load_design_specs(specs_file)
       IN IF r.raised # ""
          THEN pc' = "crashed" /\ UNCHANGED <<design_specs, ui>>
          ELSE /\ pc' = "upload"
               /\ design_specs' = r.specs
               /\ ui' = ui \o r.shown
    /\ UNCHANGED <<arg, ret, specs_file, uploaded_file, df2, filter_option, filtered_df, story>>

csv_error(cause, names) == Element("error", "Error reading CSV file: " \o cause, names, 0)

\* lines 459-467 and the handler at 581-582: read the file, project the five
\* columns (KeyError when one is not there), show the preview
ReadCsv ==
    /\ pc = "upload"
    /\ IF uploaded_file = None
       THEN pc' = "instructions" /\ UNCHANGED <<df2, ui>>
       ELSE IF ~uploaded_file.parses
       THEN /\ pc' = "instructions"
            /\ ui' = Append(ui, csv_error("EmptyDataError", {}))
            /\ UNCHANGED df2
       ELSE IF missing_columns_of(uploaded_file.columns) # {}
       THEN /\ pc' = "instructions"
            /\ ui' = Append(ui, csv_error("KeyError", missing_columns_of(uploaded_file.columns)))
            /\ UNCHANGED df2
       ELSE /\ pc' = "validate"
            /\ df2' = uploaded_file.rows
            /\ ui' = ui \o <<Element("subheader", "Data Preview", {}, 0),
                             Element("dataframe", "df2.head()", {}, Min(5, Len(uploaded_file.rows)))>>
    /\ UNCHANGED <<arg, ret, specs_file, design_specs, uploaded_file, filter_option,
                   filtered_df, story>>

\* lines 470-471: df2 has the columns the projection gave it
Validate ==
    /\ pc = "validate"
    /\ LET r == validate_csv_structure(Range(required_columns))
       IN IF r.valid
          THEN /\ pc' = "filter"
               /\ ui' = Append(ui \o r.shown, Element("success", "Found bookings in the uploaded file", {}, Len(df2)))
          ELSE /\ pc' = "instructions"
               /\ ui' = ui \o r.shown
    /\ UNCHANGED <<arg, ret, specs_file, design_specs, uploaded_file, df2, filter_option,
                   filtered_df, story>>

\* lines 476-492: the radio button's value and the filter; the AttributeError
\* of the .str accessor is caught at 581
ApplyFilter ==
    /\ pc = "filter"
    /\ \E option \in FilterOptions :
          /\ filter_option' = option
          /\ IF option # "All bookings" /\ str_accessor_raises(df2)
             THEN /\ pc' = "instructions"
                  /\ ui' = Append(ui, csv_error("AttributeError", {}))
                  /\ UNCHANGED filtered_df
             ELSE /\ pc' = "filtered"
                  /\ filtered_df' = apply_filter(df2, option)
                  /\ ui' = Append(ui, filter_info(option, Len(apply_filter(df2, option))))
    /\ UNCHANGED <<arg, ret, specs_file, design_specs, uploaded_file, df2, story>>

\* lines 495-500: st.stop() ends the run (its exception is not an Exception)
ShowFiltered ==
    /\ pc = "filtered"
    /\ IF has_bookings(filtered_df)
       THEN /\ pc' = "design"
            /\ ui' = ui \o <<Element("subheader", "Filtered Data Preview", {}, 0),
                             Element("dataframe", "filtered_df.head()", {}, Min(5, Len(filtered_df)))>>
       ELSE /\ pc' = "stopped"
            /\ ui' = Append(ui, Element("warning", "No bookings found for the selected service period.", {}, 0))
    /\ UNCHANGED <<arg, ret, specs_file, design_specs, uploaded_file, df2, filter_option,
                   filtered_df, story>>

\* lines 503-552: the widgets write their values into design_specs; the
\* preview image is shown, or the text card when generate_preview_card fails
DesignSettings ==
    /\ pc = "design"
    /\ \E font \in {"Helvetica", "Courier"}, border \in BOOLEAN, preview \in BOOLEAN :
          /\ design_specs' = [design_specs EXCEPT
                                 !.font_family = font,
                                 !.border = border,
                                 !.border_color = IF border THEN "gray" ELSE @,
                                 !.background_color = "white"]
          /\ ui' = Append(ui, IF preview
                              THEN Element("image", "Placecard Preview", {}, 0)
                              ELSE Element("code", "text preview", {}, 0))
    /\ pc' = "button"
    /\ UNCHANGED <<arg, ret, specs_file, uploaded_file, df2, filter_option, filtered_df, story>>

\* how a call of generate_placecards ends: it returns the buffer, or an
\* exception leaves it while the story is assembled (styles, colours, cards) or
\* from doc.build(story)
GenerateOutcomes == {"returned", "assembly raised", "build raised"}

\* success and download elements after the try body ran through, and the
\* download button also after the handler
generation_elements_then_download(outcome, option) ==
    (IF outcome = "returned"
     THEN <<Element("success", "Placecards generated successfully!", {}, 0)>>
     ELSE <<Element("error", "Error generating placecards", {}, 0)>>)
    \o <<Element("download_button", download_file_name(option), {}, 0)>>

\* lines 557-579: what the try block and its handler write to the page
generation_elements(outcome, option) ==
    IF outcome = "returned"
    THEN <<Element("success", "Placecards generated successfully!", {}, 0),
           Element("download_button", download_file_name(option), {}, 0)>>
    ELSE <<Element("error", "Error generating placecards", {}, 0)>>

\* lines 555-579: when the button is pressed generate_placecards runs; what
\* it raises is caught at 578
GenerateButton ==
    /\ pc = "button"
    /\ \E pressed \in BOOLEAN, outcome \in GenerateOutcomes :
          IF ~pressed
          THEN outcome = "returned" /\ UNCHANGED <<ret, ui, story>>
          ELSE /\ story' = IF outcome = "assembly raised"
                           THEN story
                           ELSE generate_placecards_story(filtered_df, design_specs)
               /\ ret' = IF outcome = "returned" THEN pdf_of(story') ELSE ret
               /\ ui' = ui \o generation_elements(outcome, filter_option)
    /\ pc' = "instructions"
    /\ UNCHANGED <<arg, specs_file, design_specs, uploaded_file, df2, filter_option, filtered_df>>

\* lines 584-620
Instructions ==
    /\ pc = "instructions"
    /\ ui' = Append(ui, Element("header", "Instructions", {}, 0))
    /\ pc' = "done"
    /\ UNCHANGED <<arg, ret, specs_file, design_specs, uploaded_file, df2, filter_option,
                   filtered_df, story>>

NextMain ==
    \/ LoadDesignSpecs
    \/ ReadCsv
    \/ Validate
    \/ ApplyFilter
    \/ ShowFiltered
    \/ DesignSettings
    \/ GenerateButton
    \/ Instructions

SpecMain == InitMain /\ [][NextMain]_vars

(***************************************************************************)
(* Calls of the field normalizers on their own                             *)
(***************************************************************************)

\* the script is not running: main's variables rest
MainIdle ==
    /\ specs_file = "unused"
    /\ design_specs = None
    /\ uploaded_file = None
    /\ df2 = <<>>
    /\ filter_option = "All bookings"
    /\ filtered_df = <<>>
    /\ ui = <<>>
    /\ story = <<>>

MainVars == <<specs_file, design_specs, uploaded_file, df2, filter_option,
              filtered_df, ui, story>>

\* largest hour and minute numbers written in the sampled time texts
MaxHourText == 24

MaxMinuteText == 60

Spaces(n) == [i \in 1..n |-> " "]

HourTexts ==
    {IntText(h) : h \in 0..MaxHourText} \cup {Pad2(h) : h \in 0..9}

MinuteTexts ==
    {<<>>, <<":", "5">>, <<":">>}
    \cup {<<":">> \o Pad2(m) : m \in {n \in 0..MaxMinuteText : n % 5 = 0}}

SuffixTexts ==
    {<<>>}
    \cup {Spaces(n) \o p : n \in 0..2,
                           p \in {<<"A", "M">>, <<"P", "M">>, <<"a", "m">>, <<"p", "M">>}}

\* the values of a Time cell the calls are tried on
TimeInputs ==
    {Str(Spaces(l) \o h \o m \o p \o Spaces(r)) :
        l \in 0..1, h \in HourTexts, m \in MinuteTexts, p \in SuffixTexts, r \in 0..1}
    \cup {Str(<<"g", "a", "r", "b", "a", "g", "e">>), Str(<<"n", "o", "o", "n", "\t">>),
          Str(<<"7", "\t", "P", "M">>), Str(<<"7", " ", "X", "M">>), Str(<<>>),
          NaN, [kind |-> "int", chars |-> <<"7">>]}

InitTime ==
    /\ pc = "call"
    /\ arg \in TimeInputs
    /\ ret = <<>>
    /\ MainIdle

CallCalculateEndTime ==
    /\ pc = "call"
    /\ ret' = calculate_end_time(arg)
    /\ pc' = "return"
    /\ UNCHANGED <<arg, MainVars>>

SpecTime == InitTime /\ [][CallCalculateEndTime]_vars

\* the 12-hour clock text of minute t of the day: hour 1..12 without leading
\* zero, two-digit minutes, AM before noon and PM from noon on
ClockText(t) ==
    LET h == t \div 60
    IN IntText(IF h % 12 = 0 THEN 12 ELSE h % 12) \o <<":">> \o Pad2(t % 60)
       \o (IF h < 12 THEN <<" ", "A", "M">> ELSE <<" ", "P", "M">>)

TimeParses(v) == v.kind = "str" /\ first_parse(strip(v.chars), 1).ok

StartMinute(v) == first_parse(strip(v.chars), 1).minutes

\* C9: for a time input that parses under one of the four forms, the result is
\* "<start> - <end>" with <end> exactly 2 hours after <start> modulo 24 hours,
\* both as 12-hour clock texts (hour 1..12, no leading zero, two-digit minutes,
\* AM/PM); 7:30 PM, 19:30 and 11:15 PM give the results the specification lists.
C9_EndTwoHoursAfterStart ==
    /\ (pc = "return" /\ TimeParses(arg)) =>
          /\ StartMinute(arg) \in 0..(24 * 60 - 1)
          /\ ret = ClockText(StartMinute(arg)) \o <<" ", "-", " ">>
                   \o ClockText((StartMinute(arg) + 120) % (24 * 60))
    /\ (pc = "return" /\ arg \in {Str(<<"7", ":", "3", "0", " ", "P", "M">>),
                                  Str(<<"1", "9", ":", "3", "0">>)}) =>
          ret = <<"7", ":", "3", "0", " ", "P", "M", " ", "-", " ",
                  "9", ":", "3", "0", " ", "P", "M">>
    /\ (pc = "return" /\ arg = Str(<<"1", "1", ":", "1", "5", " ", "P", "M">>)) =>
          ret = <<"1", "1", ":", "1", "5", " ", "P", "M", " ", "-", " ",
                  "1", ":", "1", "5", " ", "A", "M">>

\* a time late in the evening has been given its range, which ends after midnight
C9_Witness ==
    /\ pc = "return"
    /\ arg = Str(<<"1", "1", ":", "1", "5", " ", "P", "M">>)
    /\ TimeParses(arg)
    /\ ret = <<"1", "1", ":", "1", "5", " ", "P", "M", " ", "-", " ",
               "1", ":", "1", "5", " ", "A", "M">>

\* C10: for a time input that no form parses (a missing or non-text value
\* included) the call returns "<input> - <input>" built from the untrimmed input.
C10_PassthroughWhenUnparsed ==
    (pc = "return" /\ ~TimeParses(arg)) =>
        ret = arg.chars \o <<" ", "-", " ">> \o arg.chars

\* an unparseable text with blanks around it has come back untrimmed, twice
C10_Witness ==
    /\ pc = "return"
    /\ arg = Str(<<" ", "2", "4", ":", "0", "0", " ">>)
    /\ ~TimeParses(arg)
    /\ ret = <<" ", "2", "4", ":", "0", "0", " ", " ", "-", " ",
               " ", "2", "4", ":", "0", "0", " ">>

\* longest sampled customer name over NameAlphabet
MaxNameLen == 4

NameAlphabet == {"a", "B", " ", "\t"}

RECURSIVE Texts(_, _)
Texts(alphabet, n) ==
    IF n = 0 THEN {<<>>}
    ELSE LET shorter == Texts(alphabet, n - 1)
         IN shorter \cup {<<c>> \o s : c \in alphabet, s \in {x \in shorter : Len(x) = n - 1}}

\* the values of a Customer cell the calls are tried on
NameInputs ==
    {Str(s) : s \in Texts(NameAlphabet, MaxNameLen)}
    \cup {SampleBookings[i]["Customer"] : i \in 1..Len(SampleBookings)}
    \cup {Str(<<"W", "A", "L", "K", " ", "i", "n", " ">>), Str(<<"w", "a", "l", "k", " ", " ", "i", "n">>),
          Str(<<"o", "'", "N", "E", "I", "L", "L">>), Str(<<"V", "A", "N", "\t", "d", "e", " ", "B", "e", "r", "g">>),
          IntCell(42)}

InitName ==
    /\ pc = "call"
    /\ arg \in NameInputs
    /\ ret = <<>>
    /\ MainIdle

CallCapitalizeCustomerName ==
    /\ pc = "call"
    /\ ret' = capitalize_customer_name(arg)
    /\ pc' = "return"
    /\ UNCHANGED <<arg, MainVars>>

SpecName == InitName /\ [][CallCapitalizeCustomerName]_vars

IsBlankName(v) ==
    \/ isna(v)
    \/ v.kind = "str" /\ \A i \in 1..Len(v.chars) : v.chars[i] \in Whitespace

\* C6: for a customer name that is missing, empty or made only of whitespace
\* characters, capitalize_customer_name returns exactly "Guest".
C6_BlankNameIsGuest ==
    (pc = "return" /\ IsBlankName(arg)) => ret = Guest

(***************************************************************************)
(* Calls of generate_placecards on its own                                 *)
(***************************************************************************)

\* most rows in a data frame handed to generate_placecards
MaxRecords == 9

InitPaginate ==
    /\ pc = "call"
    /\ arg \in Frames({SampleBookings[1], SampleBookings[2]}, MaxRecords)
    /\ ret = None
    /\ specs_file = "unused"
    /\ design_specs \in {get_default_specs, file_specs}
    /\ uploaded_file = None
    /\ df2 = <<>>
    /\ filter_option = "All bookings"
    /\ filtered_df = <<>>
    /\ ui = <<>>
    /\ story = <<>>

\* generate_placecards(arg, design_specs): the story is assembled, then
\* doc.build(story) either returns or raises (the renderer is not part of the
\* program); an exception while the story is assembled hands over nothing
CallGeneratePlacecards ==
    /\ pc = "call"
    /\ \E outcome \in GenerateOutcomes :
          CASE outcome = "returned" ->
                   /\ story' = generate_placecards_story(arg, design_specs)
                   /\ pc' = "return" /\ ret' = pdf_of(story')
            [] outcome = "build raised" ->
                   /\ story' = generate_placecards_story(arg, design_specs)
                   /\ pc' = "raised" /\ ret' = ret
            [] outcome = "assembly raised" ->
                   /\ story' = story
                   /\ pc' = "assembly raised" /\ ret' = ret
    /\ UNCHANGED <<arg, specs_file, design_specs, uploaded_file, df2, filter_option,
                   filtered_df, ui>>

SpecPaginate == InitPaginate /\ [][CallGeneratePlacecards]_vars

Called == pc \in {"return", "raised"}

\* the page grids of a story, in order
PagesOf(s) == SelectSeq(s, LAMBDA f : f.kind = "page_table")

\* the four cells of a page grid in row-major order
CellsOf(page) == page.data[1] \o page.data[2]

CardCount(page) == Cardinality({k \in 1..Len(CellsOf(page)) : CellsOf(page)[k].kind = "card_table"})

\* C1: N >= 1 records give exactly ceil(N/4) page grids; every page but the
\* last holds exactly 4 cards, the last holds N mod 4 cards (4 when 4 divides N).
C1_PageCountAndSizes ==
    (Called /\ Len(arg) >= 1) =>
        LET N == Len(arg)
            pages == PagesOf(story)
            P == Len(pages)
        IN /\ 4 * (P - 1) < N /\ N <= 4 * P
           /\ \A k \in 1..(P - 1) : CardCount(pages[k]) = 4
           /\ CardCount(pages[P]) = (IF N % 4 = 0 THEN 4 ELSE N % 4)

\* nine records have been laid out: two full pages and a last page of one card
C1_Witness ==
    /\ Called
    /\ Len(arg) = 9
    /\ Len(PagesOf(story)) = 3
    /\ CardCount(PagesOf(story)[3]) = 1

\* C2: every record becomes exactly one card, in input order: record i
\* (0-based) is in row-major cell i mod 4 of page floor(i/4), and every cell at
\* or beyond the chunk's length is blank.
C2_RecordToCell ==
    Called =>
        LET N == Len(arg)
            pages == PagesOf(story)
        IN /\ \A i \in 0..(N - 1) :
                 /\ (i \div 4) + 1 \in 1..Len(pages)
                 /\ CellsOf(pages[(i \div 4) + 1])[(i % 4) + 1]
                       = create_single_card(arg[i + 1], design_specs)
           /\ \A k \in 1..Len(pages) :
                 /\ Len(pages[k].data) = 2
                 /\ Len(pages[k].data[1]) = 2 /\ Len(pages[k].data[2]) = 2
                 /\ \A c \in 0..3 : 4 * (k - 1) + c >= N => CellsOf(pages[k])[c + 1] = Str(<<>>)

\* six records that differ from their neighbours have been laid out; the last
\* page has its top row filled and its bottom row blank
C2_Witness ==
    /\ Called
    /\ Len(arg) = 6
    /\ \A i \in 1..5 : arg[i] # arg[i + 1]
    /\ CellsOf(PagesOf(story)[2])[2].kind = "card_table"
    /\ CellsOf(PagesOf(story)[2])[3] = Str(<<>>)

\* C3: in the story, page grids and page separators alternate, starting and
\* ending with a page grid: P pages, P-1 separators, none after the last page;
\* the pages are in input order.
C3_SeparatorsBetweenPages ==
    (Called /\ Len(arg) >= 1) =>
        LET P == Len(PagesOf(story))
        IN /\ Len(story) = 2 * P - 1
           /\ \A j \in 1..Len(story) :
                 story[j].kind = (IF j % 2 = 1 THEN "page_table" ELSE "PageBreak")
           /\ Cardinality({j \in 1..Len(story) : story[j] = PageBreak}) = P - 1
           /\ \A k \in 1..P :
                 story[2 * k - 1].data[1][1] = create_single_card(arg[4 * (k - 1) + 1], design_specs)

\* eight records, a multiple of the page size, have been laid out: two pages,
\* one separator between them, none at the end
C3_Witness ==
    /\ Called
    /\ Len(arg) = 8
    /\ arg[1] # arg[5]
    /\ Len(story) = 3
    /\ story[2] = PageBreak
    /\ story[3].kind = "page_table"

(***************************************************************************)
(* Properties of a run of main                                             *)
(***************************************************************************)

\* the filter has been applied in this run (its st.info line is on the page)
FilterApplied ==
    \E k \in 1..Len(ui) :
        ui[k].kind = "info"
        /\ ui[k].text \in {"Filtered to Lunch bookings", "Filtered to Dinner bookings",
                           "Including all bookings"}

DownloadOffered == \E k \in 1..Len(ui) : ui[k].kind = "download_button"

MissingColumnsUploaded ==
    /\ uploaded_file.kind = "csv"
    /\ uploaded_file.parses
    /\ \E c \in Range(required_columns) : c \notin uploaded_file.columns

\* C5: when a required column is missing from the uploaded file, main reports
\* the validation error listing the missing columns, through the validation
\* step, before any other processing of the input (projection, preview,
\* filtering, generation).
C5_MissingColumnsReportedByValidation ==
    (pc = "done" /\ MissingColumnsUploaded) =>
        /\ \E k \in 1..Len(ui) :
              /\ ui[k].kind = "error"
              /\ ui[k].text = "Missing required columns"
              /\ ui[k].names = {c \in Range(required_columns) : c \notin uploaded_file.columns}
        /\ \A k \in 1..Len(ui) :
              ui[k].text \notin {"Error reading CSV file: KeyError", "Data Preview"}

LowerLunch == <<"l", "u", "n", "c", "h">>

LowerDinner == <<"d", "i", "n", "n", "e", "r">>

\* the row's service category is text that holds kw at some offset, letter
\* case ignored
CategoryHolds(row, kw) ==
    LET v == row["Service or Event"]
    IN /\ v.kind = "str"
       /\ \E off \in 0..(Len(v.chars) - Len(kw)) :
             \A j \in 1..Len(kw) : LowerChar(v.chars[off + j]) = kw[j]

C8_DefaultsWhenSpecsUnreadable ==
    (pc # "start" /\ specs_file \in {"missing", "unopenable", "unparseable"}) =>
        /\ pc # "crashed"
        /\ \E k \in 1..Len(ui) : ui[k].kind = "warning" /\ ui[k].text = "Design specs file not found. Using default settings."
        /\ pc = "upload" => design_specs = get_default_specs

(***************************************************************************)
(* Calls of extract_table_numbers on its own                               *)
(***************************************************************************)

\* longest sampled table text over TableAlphabet
MaxTableLen == 5

TableAlphabet == {"1", "2", "T", ",", " "}

\* the values of a Table(s) cell the calls are tried on
TableInputs ==
    {Str(s) : s \in Texts(TableAlphabet, MaxTableLen)}
    \cup {SampleBookings[i]["Table(s)"] : i \in 1..Len(SampleBookings)}
    \cup {Str(<<"T", "1", "0", "b", "7", ",", ",", "x", ",", "\t", "3", " ">>),
          IntCell(12), [kind |-> "float", chars |-> <<"5", ".", "0">>]}

InitTables ==
    /\ pc = "call"
    /\ arg \in TableInputs
    /\ ret = <<>>
    /\ MainIdle

CallExtractTableNumbers ==
    /\ pc = "call"
    /\ ret' = extract_table_numbers(arg)
    /\ pc' = "return"
    /\ UNCHANGED <<arg, MainVars>>

SpecTables == InitTables /\ [][CallExtractTableNumbers]_vars

\* the position of the k-th comma of s; 0 for k = 0 and Len(s) + 1 past the last
CommaAt(s, k) ==
    LET commas == {i \in 1..Len(s) : s[i] = ","}
    IN IF k = 0 THEN 0
       ELSE IF k > Cardinality(commas) THEN Len(s) + 1
       ELSE CHOOSE i \in commas : Cardinality({j \in commas : j < i}) = k - 1

\* the k-th comma-separated segment of s, k counted from 1
SegmentOf(s, k) == SubSeq(s, CommaAt(s, k - 1) + 1, CommaAt(s, k) - 1)

SegmentCount(s) == Cardinality({i \in 1..Len(s) : s[i] = ","}) + 1

HasDigit(seg) == \E i \in 1..Len(seg) : IsDigit(seg[i])

\* the first contiguous run of digits of a segment that has a digit
FirstDigitRun(seg) ==
    LET p == CHOOSE i \in 1..Len(seg) : IsDigit(seg[i]) /\ \A j \in 1..(i - 1) : ~IsDigit(seg[j])
        q == CHOOSE e \in p..Len(seg) :
                 /\ \A j \in p..e : IsDigit(seg[j])
                 /\ e = Len(seg) \/ ~IsDigit(seg[e + 1])
    IN SubSeq(seg, p, q)

\* the runs of segments k..n of s that have a digit, each followed by a comma
RECURSIVE RunsWithCommas(_, _, _)
RunsWithCommas(s, k, n) ==
    IF k > n THEN <<>>
    ELSE (IF HasDigit(SegmentOf(s, k)) THEN FirstDigitRun(SegmentOf(s, k)) \o <<",">> ELSE <<>>)
         \o RunsWithCommas(s, k + 1, n)

IsMissingTable(v) == isna(v) \/ (v.kind = "str" /\ v.chars = <<>>)

\* C11: extract_table_numbers returns the comma-join (no spaces) of the first
\* contiguous run of digits of each comma-separated segment that has a digit,
\* in segment order; segments without digits are dropped; the result is "TBD"
\* when the input is missing, empty or has no segment with a digit. So the
\* result is "TBD", or holds only digits and commas with no leading, trailing
\* or doubled comma.
C11_FirstDigitRunsJoined ==
    pc = "return" =>
        LET s == arg.chars
            runs == RunsWithCommas(s, 1, SegmentCount(s))
        IN /\ (IsMissingTable(arg) \/ runs = <<>>) => ret = TBD
           /\ (~IsMissingTable(arg) /\ runs # <<>>) => ret = SubSeq(runs, 1, Len(runs) - 1)
           /\ \/ ret = TBD
              \/ /\ ret # <<>>
                 /\ \A i \in 1..Len(ret) : IsDigit(ret[i]) \/ ret[i] = ","
                 /\ ret[1] # "," /\ ret[Len(ret)] # ","
                 /\ \A i \in 1..(Len(ret) - 1) : ~(ret[i] = "," /\ ret[i + 1] = ",")

\* "5, T12, none" has come back as "5,12": the segment without digits is dropped
C11_Witness ==
    /\ pc = "return"
    /\ arg = Str(<<"5", ",", " ", "T", "1", "2", ",", " ", "n", "o", "n", "e">>)
    /\ ret = <<"5", ",", "1", "2">>

GenerationFailureShown ==
    \E k \in 1..Len(ui) : ui[k] = Element("error", "Error generating placecards", {}, 0)

\* C12: a failure of document assembly or rendering after the button is
\* pressed is caught in main and reported as a generation failure, and no
\* download is offered in that run: a download is offered only after
\* generate_placecards has returned the complete document. Once the button step
\* is over, the page shows after the preview nothing (button not pressed), the
\* failure alone, or the success line with the download button.
C12_FailureReportedNoDownload ==
    /\ DownloadOffered =>
          /\ story = generate_placecards_story(filtered_df, design_specs)
          /\ Len(PagesOf(story)) >= 1
          /\ ret = pdf_of(story)
          /\ ~GenerationFailureShown
    /\ GenerationFailureShown =>
          ~DownloadOffered /\ ret = None /\ pc \in {"instructions", "done"}
    /\ (pc \in {"instructions", "done"} /\ story # <<>> /\ ret = None) =>
          GenerationFailureShown
    /\ pc = "crashed" => ui = <<>>
    /\ \A k \in 1..Len(ui) :
          (ui[k].kind \in {"image", "code"} /\ pc \in {"instructions", "done"}) =>
              LET after == SelectSeq(SubSeq(ui, k + 1, Len(ui)), LAMBDA e : e.kind # "header")
              IN after \in { <<>>,
                             <<Element("error", "Error generating placecards", {}, 0)>>,
                             <<Element("success", "Placecards generated successfully!", {}, 0),
                               Element("download_button", download_file_name(filter_option), {}, 0)>> }

\* doc.build raised on an assembled story: the run went on to its end with the
\* failure on the page, no buffer and no download button
C12_Witness ==
    /\ pc = "done"
    /\ story # <<>>
    /\ ret = None
    /\ GenerationFailureShown
    /\ ~DownloadOffered

(***************************************************************************)
(* Properties of the capitalized name                                      *)
(***************************************************************************)

\* the positions where a whitespace-separated word of s starts
WordStarts(s) ==
    {i \in 1..Len(s) : s[i] \notin Whitespace /\ (i = 1 \/ s[i - 1] \in Whitespace)}

WordStartAt(s, k) ==
    CHOOSE i \in WordStarts(s) : Cardinality({j \in WordStarts(s) : j < i}) = k - 1

\* the position where the word of s that starts at p ends
WordEnd(s, p) ==
    CHOOSE e \in p..Len(s) :
        /\ \A j \in p..e : s[j] \notin Whitespace
        /\ e = Len(s) \/ s[e + 1] \in Whitespace

\* the word of s that starts at p: first character upper-cased, rest lower-cased
TitleWord(s, p) ==
    [j \in 1..(WordEnd(s, p) - p + 1) |->
        IF j = 1 THEN UpperChar(s[p]) ELSE LowerChar(s[p + j - 1])]

\* words k..n of s in title case, each followed by one space
RECURSIVE TitleWordsWithSpaces(_, _, _)
TitleWordsWithSpaces(s, k, n) ==
    IF k > n THEN <<>>
    ELSE TitleWord(s, WordStartAt(s, k)) \o <<" ">> \o TitleWordsWithSpaces(s, k + 1, n)

\* s is "walk in" in any letter case, with whitespace before and after at most
IsWalkIn(s) ==
    \E a \in 1..Len(s) :
        /\ a + 6 <= Len(s)
        /\ \A j \in 1..7 : LowerChar(s[a + j - 1]) = <<"w", "a", "l", "k", " ", "i", "n">>[j]
        /\ \A j \in 1..Len(s) : (j < a \/ j > a + 6) => s[j] \in Whitespace

\* C13: for a customer name that is not blank, capitalize_customer_name returns
\* the whitespace-separated words of the input in order, each with its first
\* character upper-cased and the rest lower-cased (name particles too), joined
\* by exactly one space with none at either end; a name equal to "walk in" in
\* any letter case gives exactly "Walk In".
C13_TitleCasedWords ==
    (pc = "return" /\ ~IsBlankName(arg)) =>
        LET s == arg.chars
            spaced == TitleWordsWithSpaces(s, 1, Cardinality(WordStarts(s)))
        IN /\ ret = SubSeq(spaced, 1, Len(spaced) - 1)
           /\ ret # <<>>
           /\ ret[1] \notin Whitespace /\ ret[Len(ret)] \notin Whitespace
           /\ \A i \in 1..Len(ret) : ret[i] # "\t"
           /\ \A i \in 1..(Len(ret) - 1) : ~(ret[i] = " " /\ ret[i + 1] = " ")
           /\ IsWalkIn(s) => ret = <<"W", "a", "l", "k", " ", "I", "n">>

\* "VAN<tab>de Berg" has come back as "Van De Berg": particles title-cased like
\* any word, the tab replaced by one space
C13_Witness ==
    /\ pc = "return"
    /\ arg = Str(<<"V", "A", "N", "\t", "d", "e", " ", "B", "e", "r", "g">>)
    /\ ret = <<"V", "a", "n", " ", "D", "e", " ", "B", "e", "r", "g">>

====
